---- MODULE Spec2Model ----
(***************************************************************************)
(* Model of the AShareData factor layer: the trading calendar, the factor  *)
(* hierarchy (Factor.py), the reader facade (AShareDataReader.py) and the  *)
(* ticker enumeration (Ticker.py).                                         *)
(*                                                                         *)
(* Dates are datetimes at midnight, written as day numbers.  A pandas      *)
(* table is a set of rows (its primary key is unique), a wide DataFrame    *)
(* is a record [err, index, columns, val]: index is the sequence of row    *)
(* labels, columns the set of security ids, val[i][s] the cell, and a      *)
(* cell is <<>> (NaN) or <<v>>.  A raised exception is the frame Error.    *)
(***************************************************************************)
EXTENDS Integers, Sequences, FiniteSets, TLC

\* ------------------------------------------------------------------ bounds

\* Longest table name of the model, in characters.
MaxName == 2
\* Largest number of tables in the store's schema.
MaxTables == 1
\* Number of candidate dates of the model.
MaxDay == 3
\* Largest number of rows in a source table of the store.
MaxRows == 2
\* Longest explicit `dates` argument of a query.
MaxDates == 2

\* The candidate dates lie more than a year apart, so that the two-year
\* lookback of the yearly factor includes some and excludes others.
Day(i) == i * 366
Days == {Day(i) : i \in 1..MaxDay}

IDs == {"A", "B"}

\* An optional argument: <<>> is None, <<x>> is x.
None == << >>
Some(x) == <<x>>
Opt(S) == {None} \cup {Some(x) : x \in S}

\* A missing cell.
NaN == << >>

\* ----------------------------------------------------------------- helpers

Min(S) == CHOOSE x \in S : \A y \in S : x <= y
Max(S) == CHOOSE x \in S : \A y \in S : y <= x
Range(s) == {s[i] : i \in 1..Len(s)}

RECURSIVE sorted(_)
\* Python's sorted() on a collection without duplicates.
sorted(S) == IF S = {} THEN << >> ELSE LET m == Min(S) IN <<m>> \o sorted(S \ {m})

\* The sequences over S of length at most n.
RECURSIVE SeqsUpTo(_, _)
SeqsUpTo(S, n) ==
    IF n = 0 THEN {<< >>}
    ELSE LET shorter == SeqsUpTo(S, n - 1)
         IN shorter \cup {Append(q, x) : q \in {p \in shorter : Len(p) = n - 1},
                                         x \in S}

IsStrictlyIncreasing(s) == \A i, j \in 1..Len(s) : i < j => s[i] < s[j]

\* --------------------------------------------------------------- variables

VARIABLES
    calendar,     \* TradingCalendar: the sorted sequence of trading days
    today,        \* the wall clock (dt.datetime.today())
    cal_call,     \* the last calendar operation and what it returned
    event_table,  \* the store's table of a compact factor: rows (DateTime, ID, value)
    data,         \* CompactFactor.data, the table loaded at construction
    compact_call, \* the arguments of the last CompactFactor.get_data call
    compact_df,   \* what that call returned
    compact_df2,  \* what repeating the call with the same arguments returned
    stmt_table,   \* the store's financial-statement table: rows (DateTime, ID, report period, value)
    yearly_call,  \* the arguments of the last YearlyReportFinancialFactor.get_data call
    yearly_df,    \* what that call returned
    schema,       \* the store's tables: table name -> the set of its column names
    construct,    \* the last construction of a factor: its arguments and whether it raised
    factor,       \* the factor object that construction gave (table_name, factor_names)
    queried,      \* the identity get_data last ran with
    cache,        \* AShareDataReader.__dict__: accessor name -> cached value or None
    store_calls,  \* how often each accessor's body ran against the store
    overlapped,   \* whether two first accesses of the accessor ever overlapped
    pc,           \* each caller's place in cached_property.__get__
    tkey,         \* the accessor the caller is in
    tval,         \* the value the caller has computed
    ret,          \* the value the caller's last access returned
    asset,        \* the class of the ticker object
    listing,      \* Ticker.cache: the rows of its listing table, in table order
    ticker_call   \* the date of the last ticker(date) call and the list it returned

vars == <<calendar, today, cal_call, event_table, data, compact_call, compact_df,
          compact_df2, stmt_table, yearly_call, yearly_df, schema, construct,
          factor, queried, cache, store_calls, overlapped, pc, tkey, tval, ret,
          asset, listing, ticker_call>>

\* ---------------------------------------------------------- TradingCalendar

\* TradingCalendar(db_interface): the trading days of the store, in order.
TradingCalendar(trading_days) == sorted(trading_days)

\* days_count counting both ends: a plausible slip.
days_count_inclusive(cal, start, end) ==
    IF start <= end
    THEN Cardinality({i \in 1..Len(cal) : start <= cal[i] /\ cal[i] <= end})
    ELSE 0 - Cardinality({i \in 1..Len(cal) : end <= cal[i] /\ cal[i] <= start})

\* TradingCalendar.days_count: the signed number of trading days in (start, end].
days_count(cal, start, end) ==
    IF start <= end
    THEN Cardinality({i \in 1..Len(cal) : start < cal[i] /\ cal[i] <= end})
    ELSE 0 - Cardinality({i \in 1..Len(cal) : end < cal[i] /\ cal[i] <= start})

\* select_dates leaving out the day `end`: a plausible slip.
select_dates_open(cal, start_date, end_date) ==
    SelectSeq(cal, LAMBDA d : /\ (start_date # None => start_date[1] <= d)
                              /\ (end_date # None => d < end_date[1]))

\* TradingCalendar.select_dates(start_date=None, end_date=None): the trading
\* days of the inclusive range, in calendar order; an omitted end of the range
\* does not restrict.  Empty when start_date > end_date.
select_dates(cal, start_date, end_date) ==
    SelectSeq(cal, LAMBDA d : /\ (start_date # None => start_date[1] <= d)
                              /\ (end_date # None => d <= end_date[1]))

\* ------------------------------------------------------------------ pandas

Error == [err |-> TRUE, index |-> << >>, columns |-> {}, val |-> << >>]

Frame(index, columns, val) ==
    [err |-> FALSE, index |-> index, columns |-> columns, val |-> val]

\* Series.unstack() of a long table with rows (dt, id, val) whose (dt, id)
\* pairs are unique: one row per date present, in date order, one column per
\* id present, NaN where the table has no row.
unstack(rows) ==
    LET index == sorted({r.dt : r \in rows})
        columns == {r.id : r \in rows}
        cell(d, s) == IF \E r \in rows : r.dt = d /\ r.id = s
                      THEN (CHOOSE r \in rows : r.dt = d /\ r.id = s).val
                      ELSE NaN
    IN Frame(index, columns,
             [i \in 1..Len(index) |-> [s \in columns |-> cell(index[i], s)]])

\* DataFrame.reindex(labels): the rows of df at the labels, in the order of
\* the labels; a label df does not have gives a row of NaN.
reindex(df, labels) ==
    LET row(d) == IF \E j \in 1..Len(df.index) : df.index[j] = d
                  THEN df.val[CHOOSE j \in 1..Len(df.index) : df.index[j] = d]
                  ELSE [s \in df.columns |-> NaN]
    IN Frame(labels, df.columns, [i \in 1..Len(labels) |-> row(labels[i])])

\* DataFrame.bfill(): the fill in the wrong direction.
bfill(df) ==
    LET cell(i, s) ==
            LET later == {j \in i..Len(df.index) : df.val[j][s] # NaN}
            IN IF later = {} THEN NaN ELSE df.val[Min(later)][s]
    IN Frame(df.index, df.columns,
             [i \in 1..Len(df.index) |-> [s \in df.columns |-> cell(i, s)]])

\* DataFrame.ffill(): down each column, a NaN cell takes the last value above it.
ffill(df) ==
    LET cell(i, s) ==
            LET known == {j \in 1..i : df.val[j][s] # NaN}
            IN IF known = {} THEN NaN ELSE df.val[Max(known)][s]
    IN Frame(df.index, df.columns,
             [i \in 1..Len(df.index) |-> [s \in df.columns |-> cell(i, s)]])

\* df.loc[df.index >= start_date, :]
rows_from(df, start_date) ==
    LET keep == SelectSeq([i \in 1..Len(df.index) |-> i],
                          LAMBDA i : df.index[i] >= start_date)
    IN Frame([k \in 1..Len(keep) |-> df.index[keep[k]]], df.columns,
             [k \in 1..Len(keep) |-> df.val[keep[k]]])

\* df.loc[labels, :] with a list of labels: KeyError when a label is not in
\* the index, else the rows in the order of the labels.
loc_rows(df, labels) ==
    IF \E k \in 1..Len(labels) : labels[k] \notin Range(df.index)
    THEN Error
    ELSE reindex(df, labels)

\* The cell of df at row label d and column s; a column df does not have
\* shows nothing.
At(df, d, s) ==
    IF s \in df.columns /\ d \in Range(df.index)
    THEN df.val[CHOOSE i \in 1..Len(df.index) : df.index[i] = d][s]
    ELSE NaN

\* ----------------------------------------------------------- CompactFactor

\* The in-place variant of get_data: the id filter is stored back into
\* self.data.
CompactFactor_get_data_inplace(self_data, cal, now, dates, start_date, end_date, ids) ==
    LET filtered == IF ids # << >> THEN {r \in self_data : r.id \in Range(ids)}
                    ELSE self_data
        end1 == IF dates # << >> THEN Some(Max(Range(dates))) ELSE end_date
        end2 == IF end1 = None THEN Some(now) ELSE end1
        date_list == select_dates(cal, None, end2)
        df0 == ffill(reindex(unstack(filtered), date_list))
        df1 == IF start_date # None THEN rows_from(df0, start_date[1]) ELSE df0
        df2 == IF dates # << >> THEN loc_rows(df1, dates) ELSE df1
    IN [data |-> filtered, df |-> df2]

\* CompactFactor.get_data(dates, start_date, end_date, ids): what it leaves in
\* self.data and what it returns.
CompactFactor_get_data(self_data, cal, now, dates, start_date, end_date, ids) ==
    LET copy == self_data
        filtered == IF ids # << >> THEN {r \in copy : r.id \in Range(ids)}
                    ELSE copy
        end1 == IF dates # << >> THEN Some(Max(Range(dates))) ELSE end_date
        end2 == IF end1 = None THEN Some(now) ELSE end1
        date_list == select_dates(cal, None, end2)
        df0 == ffill(reindex(unstack(filtered), date_list))
        df1 == IF start_date # None THEN rows_from(df0, start_date[1]) ELSE df0
        df2 == IF dates # << >> THEN loc_rows(df1, dates) ELSE df1
    IN [data |-> self_data, df |-> df2]

\* ------------------------------------------- YearlyReportFinancialFactor

\* buffer = dt.timedelta(days=365 * 2)
Buffer == 730

\* db_interface.read_table(table, columns, start_date, end_date, ids): the rows
\* dated within [start_date, end_date] of the ids asked for; an omitted filter
\* does not restrict.
read_table(table, start_date, end_date, ids) ==
    {r \in table : /\ (start_date # None => start_date[1] <= r.dt)
                   /\ (end_date # None => r.dt <= end_date[1])
                   /\ (ids # << >> => r.id \in Range(ids))}

\* YearlyReportFinancialFactor.get_data(dates, start_date, end_date, ids).
\*   - with dates, line 187 takes max(end_date): end_date is None or one
\*     datetime, neither is iterable, and the call raises TypeError;
\*   - without start_date, line 191 subtracts the buffer from None and raises;
\*   - droplevel leaves the index (DateTime, ID); two rows of one security
\*     disclosed on one day (two reporting periods) make unstack raise.
YearlyReportFinancialFactor_get_data(table, cal, dates, start_date, end_date, ids) ==
    IF dates # << >> \/ start_date = None THEN Error
    ELSE
        LET buffer_start == start_date[1] - Buffer
            fetched == read_table(table, Some(buffer_start), end_date, ids)
            dropna == {r \in fetched : r.val # NaN}
            rows == {r \in dropna : r.rp.month = 12}
            index_dates == select_dates(cal, Some(buffer_start), end_date)
            out_dates == select_dates(cal, start_date, end_date)
        IN IF \E r1, r2 \in rows : r1 # r2 /\ r1.dt = r2.dt /\ r1.id = r2.id
           THEN Error
           ELSE LET long == {[dt |-> r.dt, id |-> r.id, val |-> r.val] : r \in rows}
                IN reindex(ffill(reindex(unstack(long), index_dates)), out_dates)


\* ------------------------------------------------------------------ Factor

\* The characters of names: a letter in its two cases, and "$" for a character
\* without case, as those of the Chinese names of the financial-statement
\* tables.
Chars == {"a", "A", "$"}
lower_char(c) == IF c = "A" THEN "a" ELSE c
\* str.lower()
lower(name) == [i \in 1..Len(name) |-> lower_char(name[i])]

\* `it in table_name` on strings: it is a substring of table_name.
IsSubstring(it, name) ==
    \E k \in 0..(Len(name) - Len(it)) : \A i \in 1..Len(it) : name[k + i] = it[i]

\* constants.FINANCIAL_STATEMENTS_TYPE: the names of the statement tables.
FINANCIAL_STATEMENTS_TYPE == {<<"$">>}

\* db_interface.exist_table(table_name)
exist_table(tables, table_name) == table_name \in DOMAIN tables
\* db_interface.get_columns_names(table_name)
get_columns_names(tables, table_name) == tables[table_name]

\* factor_names is None (<<>>), one name [str |-> TRUE, names |-> <<c>>] or a
\* sequence of names [str |-> FALSE, names |-> <<c, ...>>].
NoNames == [str |-> FALSE, names |-> << >>]

\* _check_args that looks only at the first name of a sequence.
Factor_check_args_first_only(tables, table_name, factor_names) ==
    LET name == lower(table_name)
    IN /\ exist_table(tables, name)
       /\ factor_names.names # << >> =>
            factor_names.names[1] \in get_columns_names(tables, name)

\* Factor._check_args: TRUE when no assertion fails.
Factor_check_args(tables, table_name, factor_names) ==
    LET name == lower(table_name)
    IN /\ exist_table(tables, name)
       /\ factor_names.names # << >> =>
            LET columns == get_columns_names(tables, name)
            IN IF factor_names.str
               THEN factor_names.names[1] \in columns
               ELSE \A i \in 1..Len(factor_names.names) : factor_names.names[i] \in columns

\* any([it in table_name for it in FINANCIAL_STATEMENTS_TYPE])
IsStatementTable(table_name) ==
    \E it \in FINANCIAL_STATEMENTS_TYPE : IsSubstring(it, table_name)

Classes == {"CompactFactor", "ContinuousFactor", "YearlyReportFinancialFactor"}
FinancialClasses == {"YearlyReportFinancialFactor"}

\* Whether cls(db_interface, table_name, factor_names) returns an object:
\* Factor.__init__ runs _check_args, then the subclass asserts the table kind.
Factor_init(tables, cls, table_name, factor_names) ==
    /\ Factor_check_args(tables, table_name, factor_names)
    /\ IF cls \in FinancialClasses
       THEN IsStatementTable(table_name)
       ELSE ~IsStatementTable(table_name)

\* ------------------------------------------------------- AShareDataReader

Callers == {"t1", "t2"}
\* The memoized accessors (cached_property) of the reader.
Accessors == {"calendar", "stocks"}
\* A slot of the instance dictionary is None or Some(n), n being the number of
\* the computation that made the value.


\* The tables a compact factor can be loaded from: between one and MaxRows
\* event rows (DateTime, ID, value), the pair (DateTime, ID) being the key.
EventValues == {10, 20}
EventRows == [dt : Days, id : IDs, val : {Some(v) : v \in EventValues}]
HasUniqueKeys(rows) ==
    \A r1, r2 \in rows : (r1.dt = r2.dt /\ r1.id = r2.id) => r1 = r2
RECURSIVE SubsetsUpTo(_, _)
SubsetsUpTo(S, n) ==
    IF n = 0 THEN {{}}
    ELSE LET smaller == SubsetsUpTo(S, n - 1)
         IN smaller \cup {T \cup {x} : T \in smaller, x \in S}
EventTables == {T \in SubsetsUpTo(EventRows, MaxRows) : T # {} /\ HasUniqueKeys(T)}

\* The financial-statement tables of the store: up to MaxRows rows (disclosure
\* date, security, reporting period, value), the first three being the key; a
\* value may be missing.
FiscalYears == {2017, 2018}
Periods == {[year |-> y, month |-> 12] : y \in FiscalYears}
           \cup {[year |-> Max(FiscalYears), month |-> 6]}
StmtValues == {100, 105}
StmtRows == [dt : Days, id : IDs, rp : Periods, val : Opt(StmtValues)]
HasUniqueStmtKeys(rows) ==
    \A r1, r2 \in rows :
        (r1.dt = r2.dt /\ r1.id = r2.id /\ r1.rp = r2.rp) => r1 = r2
StmtTables == {T \in SubsetsUpTo(StmtRows, MaxRows) : HasUniqueStmtKeys(T)}

\* The calendars the store can hold.
Calendars == {TradingCalendar(S) : S \in SUBSET Days}

\* The clock shows one of the last two candidate dates.
FirstToday == Day(MaxDay - 1)

\* ------------------------------------------------------------ idle values

NoCalCall == [op |-> "none", start |-> None, end |-> None, count |-> 0,
              dates |-> << >>]
NoCompactCall == [called |-> FALSE, dates |-> << >>, start_date |-> None,
                  end_date |-> None, ids |-> << >>, today |-> 0]
NoFrame == [called |-> FALSE, today |-> 0, df |-> Error]

CalendarIdle == cal_call = NoCalCall
CompactIdle ==
    /\ event_table = {}
    /\ data = {}
    /\ compact_call = NoCompactCall
    /\ compact_df = NoFrame
    /\ compact_df2 = NoFrame

NoYearlyCall == [called |-> FALSE, dates |-> << >>, start_date |-> None,
                 end_date |-> None, ids |-> << >>]
YearlyIdle ==
    /\ stmt_table = {}
    /\ yearly_call = NoYearlyCall
    /\ yearly_df = Error

compact_vars == <<event_table, data, compact_call, compact_df, compact_df2>>
yearly_vars == <<stmt_table, yearly_call, yearly_df>>

Names == SeqsUpTo(Chars, MaxName) \ {<< >>}
ColumnNames == {<<"a">>, <<"A">>}
ColumnSets == (SUBSET ColumnNames) \ {{}}
\* The schemas the store can have: up to MaxTables tables, each with columns.
Schemas ==
    UNION {[T -> ColumnSets] : T \in SubsetsUpTo(Names, MaxTables)}

FactorNames ==
    {NoNames}
    \cup {[str |-> TRUE, names |-> <<c>>] : c \in ColumnNames}
    \cup {[str |-> FALSE, names |-> q] : q \in {<< <<"a">> >>, << <<"A">> >>,
                                                << <<"a">>, <<"A">> >>}}

NoConstruct == [called |-> FALSE, cls |-> "", table_name |-> << >>,
                factor_names |-> NoNames, raised |-> FALSE]
NoFactor == [made |-> FALSE, cls |-> "", table_name |-> << >>, factor_names |-> NoNames]

FactorIdle ==
    /\ schema = << >>
    /\ construct = NoConstruct
    /\ factor = NoFactor
    /\ queried = NoFactor
factor_vars == <<schema, construct, factor, queried>>

ReaderIdle ==
    /\ cache = [k \in Accessors |-> None]
    /\ store_calls = [k \in Accessors |-> 0]
    /\ overlapped = [k \in Accessors |-> FALSE]
    /\ pc = [t \in Callers |-> "idle"]
    /\ tkey = [t \in Callers |-> "calendar"]
    /\ tval = [t \in Callers |-> None]
    /\ ret = [t \in Callers |-> None]
reader_vars == <<cache, store_calls, overlapped, pc, tkey, tval, ret>>

\* ------------------------------------------------------------------ Ticker

\* The order of the security ids as strings.
IdOrder == <<"A", "B">>
IdRank(s) == CHOOSE k \in 1..Len(IdOrder) : IdOrder[k] = s

\* Python's sorted() on a list of ids: duplicates stay.
RECURSIVE sorted_from(_, _)
sorted_from(list, k) ==
    IF k > Len(IdOrder) THEN << >>
    ELSE SelectSeq(list, LAMBDA s : s = IdOrder[k]) \o sorted_from(list, k + 1)
sorted_list(list) == sorted_from(list, 1)

\* The rows of df at the positions in rows_at, in the order of df.
take(df, rows_at) ==
    LET idx == sorted(rows_at)
    IN [k \in 1..Len(idx) |-> df[idx[k]]]

\* df.ID.tolist()
ID_tolist(df) == [i \in 1..Len(df) |-> df[i].id]

\* df.groupby('ID').tail(1): of each id the last row, in the order of df.
groupby_tail(df) ==
    take(df, {i \in 1..Len(df) : \A j \in (i + 1)..Len(df) : df[j].id # df[i].id})

\* df.groupby('ID').head(1): of each id the first row, in the order of df.
groupby_head(df) ==
    take(df, {i \in 1..Len(df) : \A j \in 1..(i - 1) : df[j].id # df[i].id})

\* dict(zip(df.ID, df.<date column>)): a later row of an id replaces an earlier one.
dict_zip(df) ==
    [s \in Range(ID_tolist(df)) |->
        df[Max({i \in 1..Len(df) : df[i].id = s})].dt]

\* The classes of ticker objects.
TickerClasses == {"StockTicker", "FutureTicker", "OptionTicker", "ETFTicker"}

\* The tables indexed by (DateTime, ID); the contract tables are indexed by ID.
DatedClasses == {"StockTicker", "ETFTicker"}

\* Row r comes before row q in the table of a cls object.
ComesBefore(cls, r, q) ==
    IF cls \in DatedClasses
    THEN r.dt < q.dt \/ (r.dt = q.dt /\ IdRank(r.id) < IdRank(q.id))
    ELSE IdRank(r.id) < IdRank(q.id)

\* db_interface.read_table(...).reset_index(): the rows of the table in the
\* order of its index.
RECURSIVE reset_index(_, _)
reset_index(cls, rows) ==
    IF rows = {} THEN << >>
    ELSE LET first == CHOOSE r \in rows : \A q \in rows \ {r} : ComesBefore(cls, r, q)
         IN <<first>> \o reset_index(cls, rows \ {first})

\* The ids of a list, each once, in the order of first appearance
\* (Series.unique().tolist()).
unique_tolist(list) ==
    take(list, {i \in 1..Len(list) : \A j \in 1..(i - 1) : list[j] # list[i]})

\* all_ticker() of each class.
all_ticker(cls, df) ==
    IF cls = "StockTicker" THEN sorted_list(unique_tolist(ID_tolist(df)))
    ELSE ID_tolist(df)

\* StockTicker.ticker(date)
StockTicker_ticker(df, date) ==
    LET stock_ticker_df == SelectSeq(df, LAMBDA r : r.dt <= date)
        tmp == groupby_tail(stock_ticker_df)
    IN sorted_list(ID_tolist(SelectSeq(tmp, LAMBDA r : r.status = 1)))

\* FutureTicker.ticker(date)
FutureTicker_ticker(df, date) ==
    sorted_list(ID_tolist(SelectSeq(df, LAMBDA r : r.dt <= date /\ r.last >= date)))

\* OptionTicker.ticker(date)
OptionTicker_ticker(df, date) ==
    sorted_list(ID_tolist(SelectSeq(df, LAMBDA r : r.dt <= date /\ r.last > date)))

\* ETFTicker.ticker(date)
ETFTicker_ticker(df, date) ==
    sorted_list(ID_tolist(SelectSeq(df, LAMBDA r : r.dt <= date /\ r.dt > date)))

\* ticker(date) of each class.
ticker(cls, df, date) ==
    CASE cls = "StockTicker" -> StockTicker_ticker(df, date)
      [] cls = "FutureTicker" -> FutureTicker_ticker(df, date)
      [] cls = "OptionTicker" -> OptionTicker_ticker(df, date)
      [] cls = "ETFTicker" -> ETFTicker_ticker(df, date)

\* list_date() of each class.
list_date(cls, df) ==
    IF cls = "StockTicker" THEN dict_zip(groupby_head(df)) ELSE dict_zip(df)

\* The listing tables.  A stock's records are (DateTime, ID, status), the
\* first of a stock being its listing; an ETF has one row (DateTime, ID); a
\* contract has one row (ID, list date, last day) with list date <= last day.
StockRows == [dt : Days, id : IDs, status : {0, 1}]
ETFRows == [dt : Days, id : IDs]
ContractRows == {r \in [id : IDs, dt : Days, last : Days] : r.dt <= r.last}
OneRowPerId(rows) == \A r1, r2 \in rows : r1.id = r2.id => r1 = r2
ListedFirst(rows) ==
    \A r \in rows : (\A q \in rows : q.id = r.id => r.dt <= q.dt) => r.status = 1
StockListings ==
    {T \in SubsetsUpTo(StockRows, MaxRows) : HasUniqueKeys(T) /\ ListedFirst(T)}
ETFListings == {T \in SubsetsUpTo(ETFRows, MaxRows) : OneRowPerId(T)}
ContractListings == {T \in SubsetsUpTo(ContractRows, MaxRows) : OneRowPerId(T)}
Listings(cls) ==
    CASE cls = "StockTicker" -> StockListings
      [] cls = "ETFTicker" -> ETFListings
      [] OTHER -> ContractListings

NoTickerCall == [called |-> FALSE, date |-> 0, out |-> << >>]
TickerIdle ==
    /\ asset = "none"
    /\ listing = << >>
    /\ ticker_call = NoTickerCall
ticker_vars == <<asset, listing, ticker_call>>

\* ------------------------------------------------- the calendar's operations

InitCalendar ==
    /\ calendar \in Calendars
    /\ today = FirstToday
    /\ CalendarIdle
    /\ CompactIdle
    /\ YearlyIdle
    /\ FactorIdle
    /\ ReaderIdle
    /\ TickerIdle

\* calendar.days_count(start, end) on two trading days.
DaysCount ==
    \E start \in Range(calendar), end \in Range(calendar) :
        /\ cal_call' = [op |-> "days_count", start |-> Some(start), end |-> Some(end),
                        count |-> days_count(calendar, start, end), dates |-> << >>]
        /\ UNCHANGED <<calendar, today, compact_vars, yearly_vars, factor_vars, reader_vars, ticker_vars>>

\* calendar.select_dates(start_date, end_date).
SelectDates ==
    \E start \in Opt(Days), end \in Opt(Days) :
        /\ cal_call' = [op |-> "select_dates", start |-> start, end |-> end,
                        count |-> 0, dates |-> select_dates(calendar, start, end)]
        /\ UNCHANGED <<calendar, today, compact_vars, yearly_vars, factor_vars, reader_vars, ticker_vars>>

NextCalendar == DaysCount \/ SelectDates

SpecCalendar == InitCalendar /\ [][NextCalendar]_vars

\* ------------------------------------------- the compact factor's operations

\* CompactFactor(db_interface, factor_name): the calendar and the whole table
\* are loaded.
InitCompact ==
    /\ calendar \in Calendars
    /\ today = FirstToday
    /\ CalendarIdle
    /\ event_table \in EventTables
    /\ data = event_table
    /\ compact_call = NoCompactCall
    /\ compact_df = NoFrame
    /\ compact_df2 = NoFrame
    /\ YearlyIdle
    /\ FactorIdle
    /\ ReaderIdle
    /\ TickerIdle

\* The ids a query may name: those the table has rows of.
IdLists == {<<"A">>, <<"B">>, <<"A", "B">>}
IdArgs(rows) == {<< >>} \cup {ids \in IdLists : Range(ids) \subseteq {r.id : r \in rows}}

\* The date arguments of a query.  max(dates) replaces end_date when dates
\* are given, so end_date is then left out.
DateArgs ==
    {<<dates, start, None>> : dates \in SeqsUpTo(Days, MaxDates) \ {<< >>},
                              start \in Opt(Days)}
    \cup {<<(<< >>), start, end>> : start \in Opt(Days), end \in Opt(Days)}

\* factor.get_data(dates, start_date, end_date, ids)
CompactGetData ==
    /\ ~compact_call.called
    /\ \E a \in DateArgs, ids \in IdArgs(data) :
        LET r == CompactFactor_get_data(data, calendar, today, a[1], a[2], a[3], ids)
        IN /\ compact_call' = [called |-> TRUE, dates |-> a[1], start_date |-> a[2],
                               end_date |-> a[3], ids |-> ids, today |-> today]
           /\ compact_df' = [called |-> TRUE, today |-> today, df |-> r.df]
           /\ data' = r.data
           /\ compact_df2' = NoFrame
           /\ UNCHANGED <<calendar, today, cal_call, event_table, yearly_vars, factor_vars, reader_vars, ticker_vars>>

\* The same query once more.
CompactGetDataAgain ==
    /\ compact_call.called
    /\ ~compact_df2.called
    /\ LET c == compact_call
           r == CompactFactor_get_data(data, calendar, today, c.dates, c.start_date,
                                       c.end_date, c.ids)
       IN /\ compact_df2' = [called |-> TRUE, today |-> today, df |-> r.df]
          /\ data' = r.data
    /\ UNCHANGED <<calendar, today, cal_call, event_table, compact_call, compact_df, yearly_vars, factor_vars, reader_vars, ticker_vars>>

\* The caller drops the frames it was given; the factor stays.
CompactRelease ==
    /\ compact_call.called
    /\ compact_call' = NoCompactCall
    /\ compact_df' = NoFrame
    /\ compact_df2' = NoFrame
    /\ UNCHANGED <<calendar, today, cal_call, event_table, data, yearly_vars, factor_vars, reader_vars, ticker_vars>>

\* A day passes.
Tick ==
    /\ today < Day(MaxDay)
    /\ today' = Day(MaxDay)
    /\ UNCHANGED <<calendar, cal_call, compact_vars, yearly_vars, factor_vars, reader_vars, ticker_vars>>

NextCompact == CompactGetData \/ CompactGetDataAgain \/ CompactRelease \/ Tick

SpecCompact == InitCompact /\ [][NextCompact]_vars

\* -------------------------------------------- the yearly factor's operations

\* YearlyReportFinancialFactor(db_interface, table_name, factor_names): the
\* calendar is loaded; the statement table stays in the store.
InitYearly ==
    /\ calendar \in Calendars
    /\ today = FirstToday
    /\ CalendarIdle
    /\ CompactIdle
    /\ stmt_table \in StmtTables
    /\ yearly_call = NoYearlyCall
    /\ yearly_df = Error
    /\ FactorIdle
    /\ ReaderIdle
    /\ TickerIdle

YearlyIds == {<< >>} \cup {<<s>> : s \in IDs}

\* The date arguments of a query: a closed range, a range without its start,
\* or a list of dates with or without end_date.
YearlyDateArgs ==
    {<<(<< >>), start, Some(end)>> : start \in Opt(Days), end \in Days}
    \cup {<<dates, None, end>> : dates \in SeqsUpTo(Days, MaxDates) \ {<< >>},
                                 end \in Opt(Days)}

\* factor.get_data(dates, start_date, end_date, ids)
YearlyGetData ==
    /\ ~yearly_call.called
    /\ \E a \in YearlyDateArgs, ids \in YearlyIds :
        /\ yearly_call' = [called |-> TRUE, dates |-> a[1], start_date |-> a[2],
                           end_date |-> a[3], ids |-> ids]
        /\ yearly_df' = YearlyReportFinancialFactor_get_data(stmt_table, calendar,
                                                             a[1], a[2], a[3], ids)
        /\ UNCHANGED <<calendar, today, cal_call, compact_vars, stmt_table, factor_vars, reader_vars, ticker_vars>>

\* The caller drops the frame it was given.
YearlyRelease ==
    /\ yearly_call.called
    /\ yearly_call' = NoYearlyCall
    /\ yearly_df' = Error
    /\ UNCHANGED <<calendar, today, cal_call, compact_vars, stmt_table, factor_vars, reader_vars, ticker_vars>>

NextYearly == YearlyGetData \/ YearlyRelease

SpecYearly == InitYearly /\ [][NextYearly]_vars

\* ------------------------------------------------ the factors' construction

InitFactor ==
    /\ calendar = << >>
    /\ today = FirstToday
    /\ CalendarIdle
    /\ CompactIdle
    /\ YearlyIdle
    /\ ReaderIdle
    /\ TickerIdle
    /\ schema \in Schemas
    /\ construct = NoConstruct
    /\ factor = NoFactor
    /\ queried = NoFactor

other_than_factor == <<calendar, today, cal_call, compact_vars, yearly_vars, reader_vars, ticker_vars>>

\* The outcome of cls(db_interface, table_name, factor_names).
Constructed(cls, table_name, factor_names) ==
    LET ok == Factor_init(schema, cls, table_name, factor_names)
    IN /\ construct' = [called |-> TRUE, cls |-> cls, table_name |-> table_name,
                        factor_names |-> factor_names, raised |-> ~ok]
       /\ factor' = IF ok
                    THEN [made |-> TRUE, cls |-> cls, table_name |-> table_name,
                          factor_names |-> factor_names]
                    ELSE NoFactor
       /\ UNCHANGED <<schema, queried, other_than_factor>>

\* CompactFactor(db_interface, factor_name): the table and its one field share
\* the name.
ConstructCompact ==
    /\ ~construct.called
    /\ \E factor_name \in Names :
        Constructed("CompactFactor", factor_name,
                    [str |-> TRUE, names |-> <<factor_name>>])

\* ContinuousFactor / YearlyReportFinancialFactor(db_interface, table_name,
\* factor_names).
ConstructOther ==
    /\ ~construct.called
    /\ \E cls \in Classes \ {"CompactFactor"}, table_name \in Names,
          factor_names \in FactorNames :
        Constructed(cls, table_name, factor_names)

\* factor.get_data(...) on the object the construction gave.
FactorGetData ==
    /\ factor.made
    /\ queried' = factor
    /\ UNCHANGED <<schema, construct, factor, other_than_factor>>

\* The caller drops the object.
FactorRelease ==
    /\ construct.called
    /\ construct' = NoConstruct
    /\ factor' = NoFactor
    /\ queried' = NoFactor
    /\ UNCHANGED <<schema, other_than_factor>>

NextFactor == ConstructCompact \/ ConstructOther \/ FactorGetData \/ FactorRelease

SpecFactor == InitFactor /\ [][NextFactor]_vars

\* ---------------------------------------------------- the reader's accessors

InitReader ==
    /\ calendar = << >>
    /\ today = FirstToday
    /\ CalendarIdle
    /\ CompactIdle
    /\ YearlyIdle
    /\ FactorIdle
    /\ ReaderIdle
    /\ TickerIdle

other_than_reader == <<calendar, today, cal_call, compact_vars, yearly_vars, factor_vars, ticker_vars>>

\* Some caller other than t is inside the first access of accessor k.
InFlight(t, k) == \E u \in Callers \ {t} : pc[u] # "idle" /\ tkey[u] = k

\* reader.<k>, first step: the attribute lookup.  A value in the instance
\* dictionary is returned as it is; otherwise cached_property.__get__ is entered.
Lookup(t, k) ==
    /\ pc[t] = "idle"
    /\ tkey' = [tkey EXCEPT ![t] = k]
    /\ IF cache[k] # None
       THEN /\ ret' = [ret EXCEPT ![t] = cache[k]]
            /\ UNCHANGED <<pc, overlapped>>
       ELSE /\ pc' = [pc EXCEPT ![t] = "call"]
            /\ overlapped' = [overlapped EXCEPT ![k] = @ \/ InFlight(t, k)]
            /\ UNCHANGED ret
    /\ UNCHANGED <<cache, store_calls, tval, other_than_reader>>

\* The assignment that leaves the dictionary as it was: nothing is cached.
set_attr_dropped(slots, k, v) == slots

\* obj.__dict__[name] = value
set_attr(slots, k, v) == [slots EXCEPT ![k] = v]

\* self.func(obj): the accessor's body reads the store and builds a new value.
Compute(t) ==
    /\ pc[t] = "call"
    /\ store_calls' = [store_calls EXCEPT ![tkey[t]] = @ + 1]
    /\ tval' = [tval EXCEPT ![t] = Some(store_calls'[tkey[t]])]
    /\ pc' = [pc EXCEPT ![t] = "store"]
    /\ UNCHANGED <<cache, overlapped, tkey, ret, other_than_reader>>

\* value = obj.__dict__[name] = self.func(obj); return value
StoreAndReturn(t) ==
    /\ pc[t] = "store"
    /\ cache' = set_attr(cache, tkey[t], tval[t])
    /\ ret' = [ret EXCEPT ![t] = tval[t]]
    /\ pc' = [pc EXCEPT ![t] = "idle"]
    /\ UNCHANGED <<store_calls, overlapped, tkey, tval, other_than_reader>>

NextReader ==
    \/ \E t \in Callers, k \in Accessors : Lookup(t, k)
    \/ \E t \in Callers : Compute(t)
    \/ \E t \in Callers : StoreAndReturn(t)

SpecReader == InitReader /\ [][NextReader]_vars

\* ---------------------------------------------------- the ticker's operations

\* Ticker(db_interface) of one of the classes: the listing table is loaded.
InitTicker ==
    /\ calendar = << >>
    /\ today = FirstToday
    /\ CalendarIdle
    /\ CompactIdle
    /\ YearlyIdle
    /\ FactorIdle
    /\ ReaderIdle
    /\ asset \in TickerClasses
    /\ \E T \in Listings(asset) : listing = reset_index(asset, T)
    /\ ticker_call = NoTickerCall

other_than_ticker == <<calendar, today, cal_call, compact_vars, yearly_vars, factor_vars, reader_vars>>

\* obj.ticker(date)
TickerCall ==
    /\ ~ticker_call.called
    /\ \E date \in Days :
        ticker_call' = [called |-> TRUE, date |-> date,
                        out |-> ticker(asset, listing, date)]
    /\ UNCHANGED <<asset, listing, other_than_ticker>>

\* The caller drops the list it was given.
TickerRelease ==
    /\ ticker_call.called
    /\ ticker_call' = NoTickerCall
    /\ UNCHANGED <<asset, listing, other_than_ticker>>

NextTicker == TickerCall \/ TickerRelease

SpecTicker == InitTicker /\ [][NextTicker]_vars

\* ================================================================== claims

\* ---- TradingCalendar

Consecutive(cal, a, b) ==
    /\ a \in Range(cal) /\ b \in Range(cal) /\ a < b
    /\ ~\E c \in Range(cal) : a < c /\ c < b

\* C5: days_count is antisymmetric and zero on the diagonal: for trading days
\* start and end, days_count(start, end) = -days_count(end, start),
\* days_count(d, d) = 0, and two consecutive trading days a < b count 1.
C5_DaysCountAntisymmetric ==
    cal_call.op = "days_count" =>
        LET start == cal_call.start[1]
            end == cal_call.end[1]
        IN /\ cal_call.count = 0 - days_count(calendar, end, start)
           /\ (start = end => cal_call.count = 0)
           /\ (Consecutive(calendar, start, end) => cal_call.count = 1)
           /\ (Consecutive(calendar, end, start) => cal_call.count = 0 - 1)

\* C5 witness: days_count was asked for two consecutive trading days and said 1.
C5_Witness ==
    /\ cal_call.op = "days_count"
    /\ Consecutive(calendar, cal_call.start[1], cal_call.end[1])
    /\ cal_call.count = 1

\* C6: select_dates(start, end) with start <= end returns exactly the trading
\* days d with start <= d <= end, increasing and without duplicates, so both
\* ends are included when they are trading days, the first element is >= start
\* and the last <= end.
C6_SelectDatesInclusive ==
    (/\ cal_call.op = "select_dates"
     /\ cal_call.start # None /\ cal_call.end # None
     /\ cal_call.start[1] <= cal_call.end[1]) =>
        LET start == cal_call.start[1]
            end == cal_call.end[1]
            out == cal_call.dates
        IN /\ Range(out) = {d \in Range(calendar) : start <= d /\ d <= end}
           /\ IsStrictlyIncreasing(out)
           /\ (out # << >> => out[1] >= start /\ out[Len(out)] <= end)

\* C6 witness: a range whose two ends are trading days came back with both.
C6_Witness ==
    /\ cal_call.op = "select_dates"
    /\ cal_call.start # None /\ cal_call.end # None
    /\ cal_call.start[1] < cal_call.end[1]
    /\ Len(cal_call.dates) >= 2
    /\ cal_call.dates[1] = cal_call.start[1]
    /\ cal_call.dates[Len(cal_call.dates)] = cal_call.end[1]

\* ---- CompactFactor

\* Security s is asked for by the last query.
CompactAsked(s) == compact_call.ids = << >> \/ s \in Range(compact_call.ids)

\* C3: a security with a single event record (e, v) shows v on every returned
\* trading day >= e and missing on every returned trading day < e, whether or
\* not e is a trading day.
C3_SingleEventForwardFill ==
    (compact_df.called /\ ~compact_df.df.err) =>
        \A s \in IDs :
            LET mine == {r \in data : r.id = s}
            IN (Cardinality(mine) = 1 /\ CompactAsked(s)) =>
                LET r == CHOOSE r \in mine : TRUE
                IN \A d \in Range(compact_df.df.index) :
                    /\ d >= r.dt => At(compact_df.df, d, s) = r.val
                    /\ d < r.dt => At(compact_df.df, d, s) = NaN

\* The last query named its end itself, by dates or by end_date.
CompactEndGiven == compact_call.dates # << >> \/ compact_call.end_date # None

\* C4 as amended: get_data never changes the loaded table, and two calls with
\* the same arguments return identical matrices when the end of the range is
\* given (dates or end_date) or both calls are made on the same day.
C4_TableUntouchedAndRepeatable ==
    /\ data = event_table
    /\ (compact_df2.called /\ (CompactEndGiven \/ compact_df2.today = compact_df.today))
        => compact_df2.df = compact_df.df

\* C4 witness: a query restricted to some ids returned values and was repeated.
C4_Witness ==
    /\ compact_df2.called
    /\ compact_call.ids # << >>
    /\ ~compact_df.df.err
    /\ \E d \in Range(compact_df.df.index), s \in IDs : At(compact_df.df, d, s) # NaN
    /\ compact_df2.today # compact_df.today

\* C4 as stated: any two calls with the same arguments return identical
\* matrices (and the table stays as loaded).
C4_AsStated ==
    /\ data = event_table
    /\ compact_df2.called => compact_df2.df = compact_df.df

\* The event records of security s effective at or before day d.
EventsUpTo(s, d) == {r \in data : r.id = s /\ r.dt <= d}

\* The value of security s in effect on day d: that of its latest event at or
\* before d.
InEffect(s, d) ==
    LET upto == EventsUpTo(s, d)
    IN (CHOOSE r \in upto : \A q \in upto : q.dt <= r.dt).val

\* The rows a query with dates can select: the trading days up to max(dates)
\* that are not before start_date.
Selectable(d) ==
    /\ d \in Range(calendar)
    /\ compact_call.start_date # None => d >= compact_call.start_date[1]

\* C11: when dates is given the rows of the result are the given dates in the
\* given order; when start_date is given a value effective before start_date
\* still shows on the first returned day; a security with no event at or
\* before a returned day is missing on that day, and a call fails only for a
\* date it cannot select, never for a security without records.
C11_RowSelection ==
    LET c == compact_call
        df == compact_df.df
    IN /\ (compact_df.called /\ ~df.err) =>
            /\ c.dates # << >> => df.index = c.dates
            /\ (c.start_date # None /\ df.index # << >>) =>
                    \A s \in IDs :
                        (/\ CompactAsked(s)
                         /\ EventsUpTo(s, df.index[1]) # {}
                         /\ \A r \in EventsUpTo(s, df.index[1]) : r.dt < c.start_date[1])
                        => At(df, df.index[1], s) = InEffect(s, df.index[1])
            /\ \A s \in IDs, d \in Range(df.index) :
                    (CompactAsked(s) /\ EventsUpTo(s, d) = {}) => At(df, d, s) = NaN
       /\ (compact_df.called /\ df.err) =>
            \E k \in 1..Len(c.dates) : ~Selectable(c.dates[k])

\* C11 where every event of the table is effective on a trading day.
C11_OnTradingDayEvents ==
    (\A r \in data : r.dt \in Range(calendar)) => C11_RowSelection

\* ---- YearlyReportFinancialFactor

\* The last query gave a frame, for a closed range.
YearlyAnswered == yearly_call.called /\ ~yearly_df.err

YearlyAsked(s) == yearly_call.ids = << >> \/ s \in Range(yearly_call.ids)

YearlyBufferStart == yearly_call.start_date[1] - Buffer

\* Reporting period p is strictly earlier than q.
EarlierPeriod(p, q) == p.year < q.year \/ (p.year = q.year /\ p.month < q.month)

\* The records of security s.
RecordsOf(s) == {r \in stmt_table : r.id = s}

\* The fiscal-year records of s with a value, disclosed within the window of
\* the last query.
Qualifying(s) ==
    {r \in RecordsOf(s) : /\ r.val # NaN
                          /\ r.rp.month = 12
                          /\ YearlyBufferStart <= r.dt
                          /\ r.dt <= yearly_call.end_date[1]}

\* The first disclosure of s after day D, if any.
HasNextDisclosure(s, D) == \E q \in RecordsOf(s) : q.dt > D
NextDisclosure(s, D) == Min({q.dt : q \in {q \in RecordsOf(s) : q.dt > D}})

C2_RestatementPrecedence ==
    YearlyAnswered =>
        \A s \in IDs : YearlyAsked(s) =>
            \A r1, r2 \in Qualifying(s) :
                (/\ RecordsOf(s) = {r1, r2}
                 /\ r1.rp = r2.rp
                 /\ r1.dt < r2.dt) =>
                    \A d \in Range(yearly_df.index) :
                        /\ (r1.dt <= d /\ d < r2.dt) => At(yearly_df, d, s) = r1.val
                        /\ d >= r2.dt => At(yearly_df, d, s) = r2.val

\* Every record of s is disclosed on a trading day.
DisclosedOnTradingDays(s) == \A r \in RecordsOf(s) : r.dt \in Range(calendar)

\* The record the latest-period-first rule selects for s at day d.
LatestPeriodFirst(s, d) ==
    LET known == {r \in Qualifying(s) : r.dt <= d}
        newest == {r \in known : ~\E q \in known : EarlierPeriod(r.rp, q.rp)}
    IN CHOOSE r \in newest : \A q \in newest : q.dt <= r.dt

\* C9: for every returned day d and security s, the value shown is that of the
\* record with the latest December reporting period among the records
\* disclosed <= d, and within that period the latest disclosure <= d (missing
\* when there is none).  Stated for securities whose records are all disclosed
\* on trading days.
C9_LatestPeriodFirst ==
    YearlyAnswered =>
        \A s \in IDs : (YearlyAsked(s) /\ DisclosedOnTradingDays(s)) =>
            \A d \in Range(yearly_df.index) :
                IF \E r \in Qualifying(s) : r.dt <= d
                THEN At(yearly_df, d, s) = LatestPeriodFirst(s, d).val
                ELSE At(yearly_df, d, s) = NaN

\* C10: get_data with a list of dates and neither start_date nor end_date does
\* not raise, and its rows are the dates asked for.
C10_DatesQuerySucceeds ==
    (/\ yearly_call.called
     /\ yearly_call.dates # << >>
     /\ yearly_call.start_date = None
     /\ yearly_call.end_date = None) =>
        /\ ~yearly_df.err
        /\ yearly_df.index = yearly_call.dates

\* ---- Factor construction

\* The identity (table, fields) of a factor of class cls is valid: the
\* case-normalized table exists, every field is one of its columns, and the
\* table is a statement table exactly when the class is a financial one.
ValidIdentity(cls, table_name, factor_names) ==
    LET name == lower(table_name)
    IN /\ name \in DOMAIN schema
       /\ \A i \in 1..Len(factor_names.names) : factor_names.names[i] \in schema[name]
       /\ (cls \in FinancialClasses) <=> IsStatementTable(name)

\* C7: construction fails when the normalized table does not exist, a field
\* is not a column of it, or the table kind does not fit the class; so no
\* constructed factor holds an invalid identity and get_data never runs with
\* one.
C7_IdentityValidatedAtConstruction ==
    /\ construct.called =>
        (~ValidIdentity(construct.cls, construct.table_name, construct.factor_names)
            => (construct.raised /\ ~factor.made))
    /\ factor.made => ValidIdentity(factor.cls, factor.table_name, factor.factor_names)
    /\ queried.made => ValidIdentity(queried.cls, queried.table_name, queried.factor_names)

\* C7 witness: a construction raised for a table that exists (under another
\* case than the one given) because the second field asked for is not a column.
C7_Witness ==
    /\ construct.called /\ construct.raised
    /\ construct.table_name # lower(construct.table_name)
    /\ lower(construct.table_name) \in DOMAIN schema
    /\ Len(construct.factor_names.names) = 2
    /\ construct.factor_names.names[1] \in schema[lower(construct.table_name)]
    /\ construct.factor_names.names[2] \notin schema[lower(construct.table_name)]
    /\ ~IsStatementTable(construct.table_name)
    /\ construct.cls = "ContinuousFactor"

\* ---- AShareDataReader

\* C8 as stated: each memoized accessor is computed at most once per instance,
\* also when several callers make their first access concurrently.
C8_AsStated == \A k \in Accessors : store_calls[k] <= 1

\* C8 as amended: an accessor whose first accesses never overlapped is
\* computed at most once and every access returns that one cached value; in
\* any case an accessor is computed at most once per caller that found the
\* dictionary empty, and never again by an access that starts once every such
\* caller has returned.
C8_AtMostOnceSequentially ==
    \A k \in Accessors :
        /\ ~overlapped[k] => /\ store_calls[k] <= 1
                             /\ cache[k] \in {None, Some(1)}
                             /\ \A t \in Callers :
                                    (pc[t] = "idle" /\ tkey[t] = k) => ret[t] \in {None, Some(1)}
        /\ store_calls[k] <= Cardinality(Callers)
        /\ (store_calls[k] > 0 /\ ~\E t \in Callers : pc[t] # "idle" /\ tkey[t] = k)
            => cache[k] # None

\* C8 witness: both accessors are cached after first accesses that did not
\* overlap, and a caller has since read the cached calendar.
C8_Witness ==
    /\ \A k \in Accessors : ~overlapped[k] /\ cache[k] = Some(1)
    /\ \A t \in Callers : pc[t] = "idle" /\ ret[t] = Some(1)
    /\ \E t, u \in Callers : t # u /\ tkey[t] = "calendar" /\ tkey[u] = "stocks"

\* ---- Ticker

\* The ids of a list are in increasing order.
IsSortedIds(list) ==
    \A i, j \in 1..Len(list) : i < j => IdRank(list[i]) <= IdRank(list[j])

\* The records of security s dated at or before day d.
ListingRecordsUpTo(s, d) ==
    {i \in 1..Len(listing) : listing[i].id = s /\ listing[i].dt <= d}

\* The most recent record of s at or before d says listed.
ListedAsOf(s, d) ==
    LET upto == ListingRecordsUpTo(s, d)
    IN /\ upto # {}
       /\ \E i \in upto : /\ \A j \in upto : listing[j].dt <= listing[i].dt
                          /\ listing[i].status = 1

\* C12: ticker(date) returns the tickers alive on date: for ETFTicker every ETF
\* listed at or before date is in it; for StockTicker it is exactly the ids
\* whose most recent listing-status record at or before date says listed; for
\* every class it is a sorted subset of all_ticker() with no id whose
\* list_date() is after date.
C12_TickerAlive ==
    ticker_call.called =>
        LET out == ticker_call.out
            date == ticker_call.date
        IN /\ asset = "ETFTicker" =>
                \A i \in 1..Len(listing) :
                    listing[i].dt <= date => listing[i].id \in Range(out)
           /\ asset = "StockTicker" =>
                Range(out) = {s \in IDs : ListedAsOf(s, date)}
           /\ IsSortedIds(out)
           /\ Range(out) \subseteq Range(all_ticker(asset, listing))
           /\ \A s \in Range(out) : list_date(asset, listing)[s] <= date

\* C12 for the classes other than ETFTicker.
C12_ExceptETF == asset # "ETFTicker" => C12_TickerAlive

====
